---- MODULE Spec2Model ----
(***************************************************************************)
(* The dispatch orchestrator of the MBTA exchange agent                    *)
(* (src/src/exchange_agent/stategraph_orchestrator.py): the catalog cache, *)
(* semantic discovery, sequential agent execution and response synthesis,  *)
(* as the state machine semantic_discovery -> execute_agents -> synthesize *)
(* that process_message runs for one request at a time; and the SLIM       *)
(* client (src/src/exchange_agent/slim_client.py), which that orchestrator *)
(* never calls and which has a specification of its own, SlimSpec.         *)
(*                                                                         *)
(* Strings that the code inspects or builds (agent texts, the merged       *)
(* reply) are sequences of characters; an Optional value is <<>> for None  *)
(* and <<x>> for a value x.                                                *)
(***************************************************************************)
EXTENDS Integers, Sequences, FiniteSets, TLC

-----------------------------------------------------------------------------
(* Bounds of the model *)

\* the clock runs from 0 to MaxTime minutes
MaxTime == 5

\* the matcher names at most MaxMatch agent identifiers
MaxMatch == 2

\* the largest number of times one client is created before a cleanup
MaxCreated == 2

\* the matcher returns at most MaxReturned identifiers when the matching is
\* checked on its own
MaxReturned == 3

-----------------------------------------------------------------------------
(* Program constants *)

\* _catalog_cache_ttl = timedelta(minutes=5), in minutes
_catalog_cache_ttl == 5

None == <<>>
Some(x) == <<x>>

\* the agents the registry knows, in the order of the keys of GET /list
Agents == {"alerts", "planner"}
RegistryKeys == <<"agent_status", "alerts", "planner">>

\* the cue words of semantic_discovery_node that occur in an agent's description
Description(agent) ==
    CASE agent = "alerts"  -> {"alert", "delay"}
      [] agent = "planner" -> {"stop", "route"}
      [] OTHER             -> {}

\* the user messages of the model: "Hi!" and "delays"
Queries == {<<"H", "i", "!">>, <<"d", "e", "l", "a", "y", "s">>}

\* ["hi", "hello", "hey", "good morning", "whats up"], line 560
GreetingWords ==
    {<<"h", "i">>, <<"h", "e", "l", "l", "o">>, <<"h", "e", "y">>,
     <<"g", "o", "o", "d", " ", "m", "o", "r", "n", "i", "n", "g">>,
     <<"w", "h", "a", "t", "s", " ", "u", "p">>}

\* the texts an agent may put in its reply: none, blank, and two visible ones
Texts == {<<>>, <<" ">>, <<"a">>, <<"b">>}

\* "\n\n"
SEP == <<"\n", "\n">>
\* the fixed messages of synthesize_response_node, each one symbol
NOTE == <<"note">>
UNAVAILABLE == <<"unavailable">>
INCOMPLETE == <<"incomplete">>
GREETING == <<"greeting">>
HINT == <<"hint">>
\* f"Error calling agent {name}: {e}"
ErrorText == <<"error">>

-----------------------------------------------------------------------------
(* Python helpers *)

\* truth value of a list or a string
Truthy(s) == Len(s) > 0

RECURSIVE LStrip(_)
LStrip(s) == IF s # <<>> /\ Head(s) \in {" ", "\n"} THEN LStrip(Tail(s)) ELSE s

RECURSIVE RStrip(_)
RStrip(s) ==
    IF s # <<>> /\ s[Len(s)] \in {" ", "\n"} THEN RStrip(SubSeq(s, 1, Len(s) - 1)) ELSE s

\* str.strip()
Strip(s) == RStrip(LStrip(s))

\* sep.join(parts)
RECURSIVE Join(_, _)
Join(parts, sep) ==
    IF parts = <<>> THEN <<>>
    ELSE IF Len(parts) = 1 THEN parts[1]
    ELSE parts[1] \o sep \o Join(Tail(parts), sep)

\* str.lower(), on the letters the model's messages use
LowerChar(c) == IF c = "H" THEN "h" ELSE c
Lower(s) == [k \in 1..Len(s) |-> LowerChar(s[k])]

\* sub in s, for two strings
In(sub, s) ==
    \E p \in 1..(Len(s) - Len(sub) + 1) : SubSeq(s, p, p + Len(sub) - 1) = sub

\* next((a for a in agent_catalog if a['agent_id'] == agent_id), None) is not None
InCatalog(agent_catalog, agent_id) ==
    \E k \in 1..Len(agent_catalog) : agent_catalog[k] = agent_id

-----------------------------------------------------------------------------
(* The registry, as the environment answers one refresh *)

\* GET /list succeeds or raises; GET /agents/{id} gives a live record, a record
\* with alive = false, or fails
RegistryAnswers ==
    [list : {"ok", "fail"}, detail : [Agents -> {"alive", "dead", "fail"}]]

\* lines 128-156: the records kept, in the order of the keys of /list
AgentsInfo(reg) ==
    SelectSeq(RegistryKeys,
              LAMBDA k : k # "agent_status" /\ reg.detail[k] = "alive")

\* the registry requests one refresh sends: /list, then one per agent key
RefreshRequests(reg) ==
    IF reg.list = "fail" THEN 1
    ELSE 1 + Len(SelectSeq(RegistryKeys, LAMBDA k : k # "agent_status"))

\* lines 110-114: the cache check
CacheHit(cache, cache_time, t) ==
    /\ cache # None /\ Truthy(cache[1])
    /\ cache_time # None
    /\ t - cache_time[1] < _catalog_cache_ttl

\* s backwards
RECURSIVE Reverse(_)
Reverse(s) == IF s = <<>> THEN <<>> ELSE Append(Reverse(Tail(s)), Head(s))

\* a cache hit that returns the snapshot backwards
GetCatalogHitReversed(cache, cache_time, t, reg) ==
    IF CacheHit(cache, cache_time, t)
    THEN [ret |-> Reverse(cache[1]), raised |-> FALSE, cache |-> cache,
          cache_time |-> cache_time, requests |-> 0, list_failed |-> FALSE]
    ELSE IF reg.list = "fail"
    THEN [ret |-> <<>>, raised |-> FALSE, cache |-> cache,
          cache_time |-> cache_time, requests |-> RefreshRequests(reg),
          list_failed |-> TRUE]
    ELSE [ret |-> AgentsInfo(reg), raised |-> FALSE, cache |-> Some(AgentsInfo(reg)),
          cache_time |-> Some(t), requests |-> RefreshRequests(reg),
          list_failed |-> FALSE]

\* get_agent_catalog_from_registry at time t with the registry answering reg:
\* the value returned, the cache and timestamp it leaves, the requests it sent
GetCatalog(cache, cache_time, t, reg) ==
    IF CacheHit(cache, cache_time, t)
    THEN [ret |-> cache[1], raised |-> FALSE, cache |-> cache,
          cache_time |-> cache_time, requests |-> 0, list_failed |-> FALSE]
    ELSE IF reg.list = "fail"
    THEN [ret |-> <<>>, raised |-> FALSE, cache |-> cache,
          cache_time |-> cache_time, requests |-> RefreshRequests(reg),
          list_failed |-> TRUE]
    ELSE [ret |-> AgentsInfo(reg), raised |-> FALSE, cache |-> Some(AgentsInfo(reg)),
          cache_time |-> Some(t), requests |-> RefreshRequests(reg),
          list_failed |-> FALSE]

-----------------------------------------------------------------------------
(* Semantic discovery *)

\* what the matcher may answer: an error, or a list of identifiers, which may
\* name agents that are not in the catalog and may repeat one
MatcherIds == Agents \cup {"ghost"}
MatcherAnswers ==
    {[kind |-> "fail", ids |-> <<>>]}
    \cup {[kind |-> "ok", ids |-> ids] :
            ids \in UNION {[1..n -> MatcherIds] : n \in 0..MaxMatch}}

\* a discovery that falls back on every agent of the catalog when the matcher
\* fails
MatchedConfigsAllOnFailure(agent_catalog, answer) ==
    IF answer.kind = "fail" THEN agent_catalog
    ELSE SelectSeq(answer.ids, LAMBDA agent_id : InCatalog(agent_catalog, agent_id))

\* a discovery that walks the catalog and keeps the agents the matcher named
MatchedConfigsInCatalogOrder(agent_catalog, answer) ==
    IF answer.kind = "fail" THEN <<>>
    ELSE SelectSeq(agent_catalog,
                   LAMBDA agent_id : InCatalog(answer.ids, agent_id))

\* lines 264-289: the matched identifiers that are found in the catalog, in the
\* order the matcher gave them; lines 291-293: none when the matcher failed
MatchedConfigs(agent_catalog, answer) ==
    IF answer.kind = "fail" THEN <<>>
    ELSE SelectSeq(answer.ids, LAMBDA agent_id : InCatalog(agent_catalog, agent_id))

\* the cue words of lines 402-408
CueWords ==
    {"alert", "delay", "disruption", "stop", "station", "location",
     "route", "planning", "direction", "trip"}

\* an inference that tests the route cues before the stop cues
IntentFromRouteFirst(matched, desc) ==
    IF ~matched THEN "general"
    ELSE IF desc \cap {"alert", "delay", "disruption"} # {} THEN "alerts"
    ELSE IF desc \cap {"route", "planning", "direction", "trip"} # {}
         THEN "trip_planning"
    ELSE IF desc \cap {"stop", "station", "location"} # {} THEN "stops"
    ELSE "transit_info"

\* lines 394-413: the intent, from whether an agent was matched and from the
\* cue words that occur in the first matched agent's description
IntentFrom(matched, desc) ==
    IF ~matched THEN "general"
    ELSE IF desc \cap {"alert", "delay", "disruption"} # {} THEN "alerts"
    ELSE IF desc \cap {"stop", "station", "location"} # {} THEN "stops"
    ELSE IF desc \cap {"route", "planning", "direction", "trip"} # {}
         THEN "trip_planning"
    ELSE "transit_info"

\* lines 393-413: the intent inferred from the first matched agent's description
InferIntent(matched_agent_ids) ==
    IntentFrom(Truthy(matched_agent_ids),
               IF Truthy(matched_agent_ids) THEN Description(matched_agent_ids[1])
               ELSE {})

\* build_mbta_graph: the nodes of the graph
GraphNodes == {"semantic_discovery", "execute_agents", "synthesize"}

\* a routing that sends every matched request to a decomposition step first
RouteThroughDecompose(matched_agents) ==
    IF Truthy(matched_agents) THEN "decompose" ELSE "synthesize"

\* a routing that runs Execute whether or not an agent was matched
RouteAlwaysExecute(matched_agents) == "execute_agents"

\* route_after_discovery
RouteAfterDiscovery(matched_agents) ==
    IF Truthy(matched_agents) THEN "execute_agents" ELSE "synthesize"

\* route_after_execution
RouteAfterExecution == "synthesize"

-----------------------------------------------------------------------------
(* Calling one agent *)

\* a JSON list with elements, where a string was expected, as one symbol
ListText == <<"list">>

\* what POST {agent}/a2a/message may produce: an httpx.HTTPError (connection
\* error, timeout, non-2xx status), a 2xx body that is not JSON, a response
\* envelope whose text is a string (or is absent: the empty string) or is a
\* list, or another JSON object, with its "error" and "response" entries
AgentReplies ==
    {[kind |-> "http_error", error |-> FALSE, text |-> <<>>],
     [kind |-> "bad_json", error |-> FALSE, text |-> <<>>],
     [kind |-> "envelope_list", error |-> FALSE, text |-> ListText]}
    \cup {[kind |-> "envelope", error |-> FALSE, text |-> t] : t \in Texts}
    \cup {[kind |-> "other", error |-> e, text |-> t] :
            e \in BOOLEAN, t \in {<<>>, <<"a">>}}

\* the transports one call_agent_api invocation tries, in order: a single POST
\* (lines 336-337)
TransportAttempts(reply) == <<"a2a">>

\* call_agent_api: the dict returned, or the exception that leaves it
\* (only httpx.HTTPError is caught, lines 360-372; response.json() of a body
\* that is not JSON raises another exception)
CallAgentApi(agent_id, reply) ==
    CASE reply.kind = "http_error" ->
           [raised |-> FALSE, response |-> ErrorText, error |-> TRUE]
      [] reply.kind = "bad_json" ->
           [raised |-> TRUE, response |-> <<>>, error |-> FALSE]
      [] reply.kind \in {"envelope", "envelope_list"} ->
           [raised |-> FALSE, response |-> reply.text, error |-> FALSE]
      [] OTHER ->
           [raised |-> FALSE, response |-> reply.text, error |-> reply.error]

\* lines 502-506: the message one agent is sent
MessageSent(st, agent_id) == st.user_message

\* an exception handler that appends a result without the error flag
ResponseEntryUnflaggedOnException(agent_id, result) ==
    IF result.raised THEN [response |-> ErrorText, error |-> FALSE]
    ELSE [response |-> result.response, error |-> result.error]

\* lines 508-534: the entry appended to responses for one call
ResponseEntry(agent_id, result) ==
    IF result.raised THEN [response |-> ErrorText, error |-> TRUE]
    ELSE [response |-> result.response, error |-> result.error]

\* a labelling that forgets the annotation in the exception handler
AgentLabelBareOnException(agent_id, result) ==
    IF ~result.raised /\ result.error THEN [agent |-> agent_id, suffix |-> " (failed)"]
    ELSE [agent |-> agent_id, suffix |-> ""]

\* lines 512, 517, 534: the entry appended to agents_called for one call
AgentLabel(agent_id, result) ==
    IF result.raised THEN [agent |-> agent_id, suffix |-> " (error)"]
    ELSE IF result.error THEN [agent |-> agent_id, suffix |-> " (failed)"]
    ELSE [agent |-> agent_id, suffix |-> ""]

\* a loop that a failed call ends (a break in the failure branches)
NextIndexStopOnFailure(i, matched_agent_ids, result) ==
    IF result.raised \/ result.error THEN Len(matched_agent_ids) + 1 ELSE i + 1

\* line 467: the for loop goes on to the next identifier after every call,
\* whatever its outcome
NextIndex(i, matched_agent_ids, result) == i + 1

-----------------------------------------------------------------------------
(* The SLIM client (src/src/exchange_agent/slim_client.py) *)

\* the agents initialize creates a client for, in the order of lines 29-44
SlimNames == <<"alerts", "planner", "stopfinder">>

\* the names call_agent may be given
SlimCallNames == {"alerts", "planner", "stopfinder", "ghost"}

\* how many create_client calls of one initialize succeed before one raises
\* (Len(SlimNames): none raises)
InitializeOutcomes == 0..Len(SlimNames)

\* an initialize without the early return of lines 23-24
InitializeAgain(initialized, cl, n) ==
    IF n = Len(SlimNames)
    THEN [raised |-> FALSE, _initialized |-> TRUE,
          clients |-> cl \cup {SlimNames[k] : k \in 1..Len(SlimNames)}]
    ELSE [raised |-> TRUE, _initialized |-> FALSE,
          clients |-> cl \cup {SlimNames[k] : k \in 1..n}]

\* initialize, lines 21-52, with n of its create_client calls succeeding
Initialize(initialized, cl, n) ==
    IF initialized
    THEN [raised |-> FALSE, _initialized |-> TRUE, clients |-> cl]
    ELSE IF n = Len(SlimNames)
    THEN [raised |-> FALSE, _initialized |-> TRUE,
          clients |-> cl \cup {SlimNames[k] : k \in 1..Len(SlimNames)}]
    ELSE [raised |-> TRUE, _initialized |-> FALSE,
          clients |-> cl \cup {SlimNames[k] : k \in 1..n}]

\* what client.send_message may produce: an exception, a response whose root
\* is an error (no result), a result without parts, a result whose parts have
\* no text, or a result whose first text part holds a text
SlimReplies ==
    {[kind |-> k, text |-> <<>>] :
       k \in {"raises", "error_response", "no_parts", "no_text_part"}}
    \cup {[kind |-> "text", text |-> t] : t \in Texts}

\* str(response), which is never empty, as one symbol
StrOfResponse == <<"repr">>

\* lines 86-102: the text extracted from the response
ExtractedText(reply) == IF reply.kind = "text" THEN reply.text ELSE <<>>

\* lines 104-105: an empty text is replaced by str(response)
SlimResponseText(reply) ==
    IF ~Truthy(ExtractedText(reply)) THEN StrOfResponse ELSE ExtractedText(reply)

\* a call_agent that does not look the client up before it sends
CallAgentWithoutLookup(init, agent_name, reply) ==
    IF init.raised
    THEN [sent |-> FALSE, raised |-> TRUE, response |-> <<>>]
    ELSE IF reply.kind = "raises"
    THEN [sent |-> TRUE, raised |-> TRUE, response |-> <<>>]
    ELSE [sent |-> TRUE, raised |-> FALSE, response |-> SlimResponseText(reply)]

\* call_agent, lines 54-119, with the client's state after its initialize
\* step: what it returns or that it raises, and whether send_message was called
CallAgent(init, agent_name, reply) ==
    IF init.raised \/ agent_name \notin init.clients
    THEN [sent |-> FALSE, raised |-> TRUE, response |-> <<>>]
    ELSE IF reply.kind = "raises"
    THEN [sent |-> TRUE, raised |-> TRUE, response |-> <<>>]
    ELSE [sent |-> TRUE, raised |-> FALSE, response |-> SlimResponseText(reply)]

-----------------------------------------------------------------------------
(* Synthesis *)

\* a collection that puts each kept text before the earlier ones
RECURSIVE KeptTextsReversed(_)
KeptTextsReversed(agent_responses) ==
    IF agent_responses = <<>> THEN <<>>
    ELSE LET r == Head(agent_responses) IN
         IF ~r.error /\ Truthy(r.response) /\ Truthy(Strip(r.response))
         THEN KeptTextsReversed(Tail(agent_responses)) \o <<r.response>>
         ELSE KeptTextsReversed(Tail(agent_responses))

\* a collection that does not skip the results flagged as errors
RECURSIVE KeptTextsWithErrors(_)
KeptTextsWithErrors(agent_responses) ==
    IF agent_responses = <<>> THEN <<>>
    ELSE LET r == Head(agent_responses) IN
         IF Truthy(r.response) /\ Truthy(Strip(r.response))
         THEN <<r.response>> \o KeptTextsWithErrors(Tail(agent_responses))
         ELSE KeptTextsWithErrors(Tail(agent_responses))

\* lines 577-584: the texts kept, in the order of agent_responses
RECURSIVE KeptTexts(_)
KeptTexts(agent_responses) ==
    IF agent_responses = <<>> THEN <<>>
    ELSE LET r == Head(agent_responses) IN
         IF r.error THEN KeptTexts(Tail(agent_responses))
         ELSE IF Truthy(r.response) /\ Truthy(Strip(r.response))
              THEN <<r.response>> \o KeptTexts(Tail(agent_responses))
         ELSE KeptTexts(Tail(agent_responses))

\* a had_errors that only remembers the last result
HadErrorsLastOnly(agent_responses) ==
    Truthy(agent_responses) /\ agent_responses[Len(agent_responses)].error

\* lines 575-580: had_errors
HadErrors(agent_responses) ==
    \E k \in 1..Len(agent_responses) : agent_responses[k].error

\* a synthesis that gives up the whole reply when one agent failed
MergedResponseAllOrNothing(agent_responses) ==
    IF HadErrors(agent_responses) THEN UNAVAILABLE
    ELSE IF Truthy(KeptTexts(agent_responses))
         THEN Join(KeptTexts(agent_responses), SEP)
    ELSE INCOMPLETE

\* a synthesis with nothing to say when no agent failed and none gave a text
MergedResponseEmptyWithoutText(agent_responses) ==
    LET responses == KeptTexts(agent_responses)
        had_errors == HadErrors(agent_responses)
    IN IF Truthy(responses)
       THEN Join(SelectSeq(responses, Truthy), SEP)
              \o (IF had_errors THEN SEP \o NOTE ELSE <<>>)
       ELSE IF had_errors THEN UNAVAILABLE ELSE <<>>

\* lines 586-596: the reply when agents were matched
MergedResponse(agent_responses) ==
    LET responses == KeptTexts(agent_responses)
        had_errors == HadErrors(agent_responses)
    IN IF Truthy(responses)
       THEN Join(SelectSeq(responses, Truthy), SEP)
              \o (IF had_errors THEN SEP \o NOTE ELSE <<>>)
       ELSE IF had_errors THEN UNAVAILABLE ELSE INCOMPLETE

\* a cue test that compares the whole message with each word
HasGreetingCueWholeMessage(message) == message \in GreetingWords

\* line 560: any(word in message for word in [...]), message in lower case
HasGreetingCue(message) == \E word \in GreetingWords : In(word, message)

\* line 583: response_text.strip() of a list with elements is an AttributeError
StripRaises(response_text) == response_text = ListText

\* synthesize_response_node raises: the loop of lines 577-584 reaches a result
\* without error whose text cannot be stripped
SynthesizeRaises(st) ==
    /\ Truthy(st.matched_agents)
    /\ \E k \in 1..Len(st.agent_responses) :
         ~st.agent_responses[k].error /\ StripRaises(st.agent_responses[k].response)

\* lines 556-571: the reply when no agent was matched
GeneralResponse(user_message) ==
    LET message == Lower(user_message) IN
    IF HasGreetingCue(message) THEN GREETING ELSE HINT

\* synthesize_response_node: final_response
SynthesizeResponse(st) ==
    IF ~Truthy(st.matched_agents) THEN GeneralResponse(st.user_message)
    ELSE MergedResponse(st.agent_responses)

-----------------------------------------------------------------------------
(* State *)

VARIABLES
    now,                  \* datetime.now(), in minutes
    _agent_catalog_cache,  \* _agent_catalog_cache: None or the cached list
    _catalog_cache_time,   \* _catalog_cache_time: None or the time of the refresh
    pc,                   \* where the orchestrator is
    state,                \* the AgentState of the request in progress
    agent_catalog,        \* the local agent_catalog of the node that ran last
    idx,                  \* position of the for loop of execute_agents_node
    responses,            \* the local responses of execute_agents_node
    agents_called,        \* the local agents_called of execute_agents_node
    catalogCall,          \* history: the latest get_agent_catalog_from_registry
                          \*   call, kept until the for loop of Execute runs
    callLog,              \* history: the agent calls of this request
    visited,              \* history: the graph nodes this request has run
    matcherLog,           \* history: the matcher's answers of this request
    _initialized,         \* SlimAgentClient._initialized
    clients,              \* SlimAgentClient.clients: the names that have a client
    slimLog,              \* history: the latest SlimAgentClient.call_agent
    intentLog,            \* history: the latest inference of an intent on its own
    tasks,                \* concurrent calls of get_agent_catalog_from_registry
    stored,               \* history: the refresh that wrote the cache last
    slimTasks,            \* concurrent calls of initialize and call_agent
    created,              \* history: the clients created since the last cleanup
    world,                \* the fixed registry, matcher and replies, if any
    firstRun,             \* history: the outcome of the first request
    other,                \* the request that waits while this one runs
    matchLog              \* history: the latest matching of identifiers on its own

vars == <<now, _agent_catalog_cache, _catalog_cache_time, pc, state, agent_catalog,
          idx, responses, agents_called, catalogCall, callLog, visited, matcherLog,
          _initialized, clients, slimLog, intentLog, tasks, stored,
          slimTasks, created, world, firstRun, other, matchLog>>

\* the coroutines that call get_agent_catalog_from_registry at the same time
Tasks == {1, 2}

\* a coroutine that is not inside get_agent_catalog_from_registry
IdleTask ==
    [pc |-> "idle", k |-> 0, answers |-> <<>>, agents_info |-> <<>>,
     ret |-> None, from |-> "", seen |-> None]

\* a coroutine that is in neither initialize nor call_agent
IdleSlimTask == [pc |-> "idle", via |-> "", step |-> 0]

\* no client was created, and no initialization failed, since the last cleanup
NothingCreated ==
    [count |-> [name \in {SlimNames[k] : k \in 1..Len(SlimNames)} |-> 0],
     failed |-> FALSE]

\* process_message, lines 729-741
InitialState(user_message) ==
    [user_message |-> user_message, intent |-> "", matched_agents |-> <<>>,
     agents_called |-> <<>>, agent_responses |-> <<>>, final_response |-> <<>>,
     should_end |-> FALSE]

NoState == InitialState(<<>>)

\* what a request that has not started holds
IdleContext ==
    [pc |-> "idle", state |-> NoState, agent_catalog |-> <<>>, idx |-> 0,
     responses |-> <<>>, agents_called |-> <<>>, callLog |-> <<>>,
     visited |-> <<>>, matcherLog |-> <<>>, catalogCall |-> None]

InitExceptWorld ==
    /\ now = 0
    /\ _agent_catalog_cache = None
    /\ _catalog_cache_time = None
    /\ pc = "boot"
    /\ state = NoState
    /\ agent_catalog = <<>>
    /\ idx = 0
    /\ responses = <<>>
    /\ agents_called = <<>>
    /\ catalogCall = None
    /\ callLog = <<>>
    /\ visited = <<>>
    /\ matcherLog = <<>>
    /\ _initialized = FALSE
    /\ clients = {}
    /\ slimLog = None
    /\ intentLog = None
    /\ tasks = [t \in Tasks |-> IdleTask]
    /\ stored = None
    /\ slimTasks = [t \in Tasks |-> IdleSlimTask]
    /\ created = NothingCreated
    /\ firstRun = None
    /\ other = IdleContext
    /\ matchLog = None

\* nothing is fixed: every answer is chosen when it is given
Init == InitExceptWorld /\ world = None

request_vars == <<state, agent_catalog, idx, responses, agents_called, callLog, visited,
                  matcherLog>>
cache_vars == <<_agent_catalog_cache, _catalog_cache_time>>
slim_vars == <<_initialized, clients, slimLog>>
orchestrator_vars == <<now, cache_vars, pc, request_vars, catalogCall>>
\* what the orchestrator's steps and the SLIM client's steps leave alone
catalog_vars == <<tasks, stored>>
slim_task_vars == <<slimTasks, created>>
run_vars == <<world, firstRun, other>>
\* what one request leaves alone, whatever else is going on
outside_request == <<slim_vars, intentLog, matchLog, catalog_vars, slim_task_vars>>
outside_orchestrator == <<outside_request, run_vars>>
outside_slim ==
    <<orchestrator_vars, intentLog, matchLog, catalog_vars, slim_task_vars, run_vars>>
outside_intent ==
    <<orchestrator_vars, slim_vars, matchLog, catalog_vars, slim_task_vars, run_vars>>
outside_catalog ==
    <<pc, request_vars, catalogCall, slim_vars, intentLog, matchLog, slim_task_vars,
      run_vars>>
outside_slim_tasks ==
    <<orchestrator_vars, intentLog, matchLog, catalog_vars, slimLog, run_vars>>
outside_match ==
    <<orchestrator_vars, slim_vars, intentLog, catalog_vars, slim_task_vars, run_vars>>

\* the history record of one call of get_agent_catalog_from_registry
CatalogCallRecord(got) ==
    [at |-> now, cache_before |-> _agent_catalog_cache,
     time_before |-> _catalog_cache_time, ret |-> got.ret, raised |-> got.raised,
     requests |-> got.requests, list_failed |-> got.list_failed]

\* one call of get_agent_catalog_from_registry: the globals it writes
CallGetCatalog(got) ==
    /\ _agent_catalog_cache' = got.cache
    /\ _catalog_cache_time' = got.cache_time
    /\ catalogCall' = Some(CatalogCallRecord(got))

-----------------------------------------------------------------------------
(* Actions *)

\* time passes: between two requests, and while the request in progress waits
\* for the matcher, which is between the two readings of the catalog (time that
\* passes later in a request shows as time passed before the next one)
Tick ==
    /\ pc \in {"idle", "semantic_discovery_match"}
    /\ now < MaxTime
    /\ now' = now + 1
    /\ UNCHANGED <<cache_vars, pc, request_vars, catalogCall, outside_orchestrator>>

\* startup_validation with the health probe failing: RuntimeError
StartupFails ==
    /\ pc = "boot"
    /\ pc' = "startup_failed"
    /\ UNCHANGED <<now, cache_vars, request_vars, catalogCall, outside_orchestrator>>

\* startup_validation with the health probe answering 200: the catalog is
\* loaded, and the orchestrator is ready whatever the catalog holds
StartupValidationWith(reg) ==
    /\ pc = "boot"
    /\ CallGetCatalog(GetCatalog(_agent_catalog_cache, _catalog_cache_time, now, reg))
    /\ pc' = "idle"
    /\ UNCHANGED <<now, request_vars, outside_orchestrator>>

StartupValidation == \E reg \in RegistryAnswers : StartupValidationWith(reg)

\* process_message: the initial state enters the graph at semantic_discovery
ProcessMessageWith(q) ==
    /\ pc = "idle"
    /\ state' = InitialState(q)
    /\ pc' = "semantic_discovery"
    /\ visited' = <<>>
    /\ callLog' = <<>>
    /\ matcherLog' = <<>>
    /\ UNCHANGED <<now, cache_vars, agent_catalog, idx, responses, agents_called,
                   catalogCall, outside_orchestrator>>

ProcessMessage == \E q \in Queries : ProcessMessageWith(q)

\* the node's result, lines 423-438, and the edge taken out of it
DiscoveryDone(matched_agent_ids) ==
    /\ state' = [state EXCEPT !.matched_agents = matched_agent_ids,
                              !.intent = InferIntent(matched_agent_ids),
                              !.agent_responses = <<>>,
                              !.agents_called = <<>>]
    /\ pc' = RouteAfterDiscovery(matched_agent_ids)

\* a discovery that asks the matcher whatever the catalog holds
AlwaysAsksMatcher(agent_catalog_read) == TRUE

\* lines 191-193: the matcher is asked unless the catalog is empty
AsksMatcher(agent_catalog_read) == Truthy(agent_catalog_read)

\* semantic_discovery_node, up to the call of the matcher: the catalog is read;
\* an empty catalog ends the discovery with no match (lines 189-193)
DiscoverCatalogWith(reg) ==
    /\ pc = "semantic_discovery"
    /\ visited' = Append(visited, "semantic_discovery")
    /\ LET got == GetCatalog(_agent_catalog_cache, _catalog_cache_time, now, reg) IN
         /\ CallGetCatalog(got)
         /\ agent_catalog' = got.ret
         /\ IF AsksMatcher(got.ret)
            THEN /\ pc' = "semantic_discovery_match"
                 /\ state' = state
            ELSE DiscoveryDone(<<>>)
    /\ UNCHANGED <<now, idx, responses, agents_called, callLog, matcherLog,
                   outside_orchestrator>>

DiscoverCatalog == \E reg \in RegistryAnswers : DiscoverCatalogWith(reg)

\* semantic_discovery_node, from the matcher's answer on
DiscoverMatchWith(answer) ==
    /\ pc = "semantic_discovery_match"
    /\ DiscoveryDone(MatchedConfigs(agent_catalog, answer))
    /\ matcherLog' = Append(matcherLog, answer.kind)
    /\ UNCHANGED <<now, cache_vars, agent_catalog, idx, responses, agents_called,
                   catalogCall, callLog, visited, outside_orchestrator>>

DiscoverMatch == \E answer \in MatcherAnswers : DiscoverMatchWith(answer)

\* execute_agents_node, up to the for loop: nothing to do without a match
\* (lines 449-455), else the catalog is read again (line 462)
ExecuteEnterWith(reg) ==
    /\ pc = "execute_agents"
    /\ visited' = Append(visited, "execute_agents")
    /\ IF ~Truthy(state.matched_agents)
       THEN /\ state' = [state EXCEPT !.agents_called = <<>>,
                                      !.agent_responses = <<>>]
            /\ pc' = RouteAfterExecution
            /\ UNCHANGED <<cache_vars, agent_catalog, idx, catalogCall>>
       ELSE /\ LET got == GetCatalog(_agent_catalog_cache, _catalog_cache_time,
                                     now, reg) IN
                 /\ CallGetCatalog(got)
                 /\ agent_catalog' = got.ret
            /\ idx' = 1
            /\ pc' = "execute_agents_loop"
            /\ state' = state
    /\ responses' = <<>>
    /\ agents_called' = <<>>
    /\ UNCHANGED <<now, callLog, matcherLog, outside_orchestrator>>

ExecuteEnter == \E reg \in RegistryAnswers : ExecuteEnterWith(reg)

\* the end of one turn of the for loop: the next turn, or, when the loop is
\* over, the node's result (lines 539-548), which follows the last turn without
\* an await
ExecuteReturn(new_idx, new_responses, new_agents_called) ==
    IF new_idx > Len(state.matched_agents)
    THEN /\ state' = [state EXCEPT !.agent_responses = new_responses,
                                   !.agents_called = new_agents_called]
         /\ pc' = RouteAfterExecution
         /\ idx' = 0
         /\ responses' = <<>>
         /\ agents_called' = <<>>
    ELSE /\ idx' = new_idx
         /\ responses' = new_responses
         /\ agents_called' = new_agents_called
         /\ UNCHANGED <<pc, state>>

\* one turn of the for loop with an identifier the catalog does not hold
\* (lines 469-473)
ExecuteSkip ==
    /\ pc = "execute_agents_loop"
    /\ idx <= Len(state.matched_agents)
    /\ ~InCatalog(agent_catalog, state.matched_agents[idx])
    /\ ExecuteReturn(idx + 1, responses, agents_called)
    /\ catalogCall' = None
    /\ UNCHANGED <<now, cache_vars, agent_catalog, callLog, visited, matcherLog,
                   outside_orchestrator>>

\* one turn of the for loop that calls the agent (lines 475-534)
ExecuteCallWith(reply) ==
    /\ pc = "execute_agents_loop"
    /\ idx <= Len(state.matched_agents)
    /\ InCatalog(agent_catalog, state.matched_agents[idx])
    /\ LET agent_id == state.matched_agents[idx]
             result == CallAgentApi(agent_id, reply)
         IN /\ ExecuteReturn(NextIndex(idx, state.matched_agents, result),
                             Append(responses, ResponseEntry(agent_id, result)),
                             Append(agents_called, AgentLabel(agent_id, result)))
            /\ callLog' = Append(callLog,
                                 [pos |-> idx, agent |-> agent_id,
                                  message |-> MessageSent(state, agent_id),
                                  reply |-> reply,
                                  attempts |-> TransportAttempts(reply),
                                  failed |-> result.raised \/ result.error])
    /\ catalogCall' = None
    /\ UNCHANGED <<now, cache_vars, agent_catalog, visited, matcherLog,
                   outside_orchestrator>>

ExecuteCall == \E reply \in AgentReplies : ExecuteCallWith(reply)

\* synthesize_response_node, then the edge to END; an exception of the node
\* leaves graph.ainvoke and process_message (line 743, no handler)
Synthesize ==
    /\ pc = "synthesize"
    /\ visited' = Append(visited, "synthesize")
    /\ IF SynthesizeRaises(state)
       THEN /\ pc' = "raised"
            /\ state' = state
       ELSE /\ state' = [state EXCEPT !.final_response = SynthesizeResponse(state),
                                      !.should_end = TRUE]
            /\ pc' = "END"
    /\ UNCHANGED <<now, cache_vars, agent_catalog, idx, responses, agents_called,
                   catalogCall, callLog, matcherLog, outside_orchestrator>>

\* process_message returns its result, or raises, and the request's state is
\* dropped
ReturnToCaller ==
    /\ pc \in {"END", "raised"}
    /\ pc' = "idle"
    /\ state' = NoState
    /\ callLog' = <<>>
    /\ visited' = <<>>
    /\ matcherLog' = <<>>
    /\ catalogCall' = None
    /\ agent_catalog' = <<>>
    /\ UNCHANGED <<now, cache_vars, idx, responses, agents_called>>

Return == ReturnToCaller /\ UNCHANGED outside_orchestrator

Next ==
    \/ Tick
    \/ StartupFails
    \/ StartupValidation
    \/ ProcessMessage
    \/ DiscoverCatalog
    \/ DiscoverMatch
    \/ ExecuteEnter
    \/ ExecuteSkip
    \/ ExecuteCall
    \/ Synthesize
    \/ Return

Spec == Init /\ [][Next]_vars

\* SlimAgentClient.initialize called by the owner of the client
SlimInitialize ==
    /\ \E n \in InitializeOutcomes :
         LET init == Initialize(_initialized, clients, n) IN
         /\ _initialized' = init._initialized
         /\ clients' = init.clients
    /\ UNCHANGED <<slimLog, outside_slim>>

\* SlimAgentClient.call_agent: initialize when needed, then one send_message
SlimCallAgent ==
    /\ \E agent_name \in SlimCallNames, message \in Queries,
          n \in InitializeOutcomes, reply \in SlimReplies :
         LET init == Initialize(_initialized, clients, n)
             result == CallAgent(init, agent_name, reply)
         IN /\ _initialized' = init._initialized
            /\ clients' = init.clients
            /\ slimLog' = Some([agent_name |-> agent_name, message |-> message,
                                reply |-> IF result.sent THEN Some(reply) ELSE None,
                                raised |-> result.raised,
                                response |-> result.response])
    /\ UNCHANGED outside_slim

\* SlimAgentClient.cleanup, lines 121-135
SlimCleanup ==
    /\ clients' = {}
    /\ _initialized' = FALSE
    /\ UNCHANGED <<slimLog, outside_slim>>

SlimNext ==
    \/ SlimInitialize
    \/ SlimCallAgent
    \/ SlimCleanup

\* the SLIM client on its own: the orchestrator of src/ never calls it
SlimSpec == Init /\ [][SlimNext]_vars

\* the inference of lines 394-413 applied to one discovery result: whether an
\* agent was matched, and the cue words in the first one's description
InferIntentCall ==
    /\ \E matched \in BOOLEAN, desc \in SUBSET CueWords :
         intentLog' = Some([matched |-> matched, desc |-> desc,
                            intent |-> IntentFrom(matched, desc)])
    /\ UNCHANGED outside_intent

\* the intent inference on its own, over every set of cue words
IntentSpec == Init /\ [][InferIntentCall]_vars

\* the catalogs the matcher is shown: the non-empty results of a refresh
\* (lines 191-193 return before the matcher on an empty one)
MatchCatalogs ==
    {AgentsInfo(reg) : reg \in RegistryAnswers} \ {<<>>}

\* what the matcher may answer, with up to MaxReturned identifiers
MatchAnswers ==
    {[kind |-> "fail", ids |-> <<>>]}
    \cup {[kind |-> "ok", ids |-> ids] :
            ids \in UNION {[1..n -> MatcherIds] : n \in 0..MaxReturned}}

\* lines 264-289 and 387-391 applied to one catalog and one answer of the
\* matcher: the identifiers that semantic_discovery_node puts in matched_agents
MatchCall ==
    /\ \E catalog \in MatchCatalogs, answer \in MatchAnswers :
         matchLog' = Some([catalog |-> catalog, answer |-> answer,
                           matched_agents |-> MatchedConfigs(catalog, answer)])
    /\ UNCHANGED outside_match

\* the matching on its own, over every catalog and answer
MatchSpec == Init /\ [][MatchCall]_vars

-----------------------------------------------------------------------------
(* get_agent_catalog_from_registry called by several coroutines at once: one
   step runs a coroutine from one await to the next *)

\* line 128: the keys of /list that name an agent
AgentKeys == SelectSeq(RegistryKeys, LAMBDA key : key # "agent_status")

\* lines 128-130: the position of the next key after k that is fetched
NextKey(k) ==
    IF \E j \in (k + 1)..Len(RegistryKeys) : RegistryKeys[j] # "agent_status"
    THEN CHOOSE j \in (k + 1)..Len(RegistryKeys) :
             /\ RegistryKeys[j] # "agent_status"
             /\ \A i \in (k + 1)..(j - 1) : RegistryKeys[i] = "agent_status"
    ELSE Len(RegistryKeys) + 1

\* a loop that ends after the first agent
RefreshDoneAfterFirst(k) == k > 2

\* line 128: the loop over the keys is over
RefreshDone(k) == k > Len(RegistryKeys)

\* a loop that keeps every record it was given
AppendRecordAlways(agents_info, agent_id, answer) ==
    IF answer = "fail" THEN agents_info ELSE Append(agents_info, agent_id)

\* lines 132-156: one turn of the loop, after the answer to GET /agents/{id}
AppendRecord(agents_info, agent_id, answer) ==
    IF answer = "alive" THEN Append(agents_info, agent_id) ELSE agents_info

\* a store that leaves the timestamp empty
StoreCatalogNoTime(agents_info, t) ==
    [cache |-> Some(agents_info), cache_time |-> None]

\* lines 159-160: the two globals, written one after the other with no await
StoreCatalog(agents_info, t) ==
    [cache |-> Some(agents_info), cache_time |-> Some(t)]

\* the answers of one refresh, as one answer of the registry
RegOf(answers) ==
    [list |-> "ok",
     detail |-> [a \in Agents |->
                    IF \E i \in 1..Len(answers) : AgentKeys[i] = a
                    THEN answers[CHOOSE i \in 1..Len(answers) : AgentKeys[i] = a]
                    ELSE "fail"]]

\* time passes while coroutines wait
CatalogTick ==
    /\ now < MaxTime
    /\ now' = now + 1
    /\ UNCHANGED <<cache_vars, catalog_vars, outside_catalog>>

\* lines 110-118: the cache check; a hit returns the cache, a miss sends /list
CatalogEnter(t) ==
    /\ tasks[t].pc = "idle"
    /\ IF CacheHit(_agent_catalog_cache, _catalog_cache_time, now)
       THEN tasks' = [tasks EXCEPT ![t] =
                [IdleTask EXCEPT !.pc = "done", !.ret = _agent_catalog_cache,
                                 !.from = "cache", !.seen = stored]]
       ELSE tasks' = [tasks EXCEPT ![t] = [IdleTask EXCEPT !.pc = "list"]]
    /\ UNCHANGED <<now, cache_vars, stored, outside_catalog>>

\* lines 121-165 from one answer on: the loop goes on to the next key, or is
\* over, and then the globals are written and the list is returned
ContinueOrStore(t, k, answers, agents_info) ==
    IF RefreshDone(k)
    THEN /\ _agent_catalog_cache' = StoreCatalog(agents_info, now).cache
         /\ _catalog_cache_time' = StoreCatalog(agents_info, now).cache_time
         /\ stored' = Some([answers |-> answers, result |-> agents_info])
         /\ tasks' = [tasks EXCEPT ![t] =
                 [IdleTask EXCEPT !.pc = "done", !.ret = Some(agents_info),
                                  !.from = "refresh", !.answers = answers,
                                  !.seen = Some([answers |-> answers,
                                                 result |-> agents_info])]]
    ELSE /\ tasks' = [tasks EXCEPT ![t] =
                 [@ EXCEPT !.pc = "detail", !.k = k, !.answers = answers,
                           !.agents_info = agents_info]]
         /\ UNCHANGED <<cache_vars, stored>>

\* lines 123-125 and 168-170: /list answers; a failure returns an empty list
CatalogList(t) ==
    /\ tasks[t].pc = "list"
    /\ \E answer \in {"ok", "fail"} :
         IF answer = "fail"
         THEN /\ tasks' = [tasks EXCEPT ![t] =
                      [IdleTask EXCEPT !.pc = "done", !.ret = Some(<<>>),
                                       !.from = "failed"]]
              /\ UNCHANGED <<cache_vars, stored>>
         ELSE ContinueOrStore(t, NextKey(0), <<>>, <<>>)
    /\ UNCHANGED <<now, outside_catalog>>

\* lines 132-165: GET /agents/{id} answers for the key at position k
CatalogDetail(t) ==
    /\ tasks[t].pc = "detail"
    /\ \E answer \in {"alive", "dead", "fail"} :
         ContinueOrStore(t, NextKey(tasks[t].k),
                         Append(tasks[t].answers, answer),
                         AppendRecord(tasks[t].agents_info,
                                      RegistryKeys[tasks[t].k], answer))
    /\ UNCHANGED <<now, outside_catalog>>

\* the caller has the list; the coroutine may call again
CatalogReturn(t) ==
    /\ tasks[t].pc = "done"
    /\ tasks' = [tasks EXCEPT ![t] = IdleTask]
    /\ UNCHANGED <<now, cache_vars, stored, outside_catalog>>

CatalogNext ==
    \/ CatalogTick
    \/ \E t \in Tasks : CatalogEnter(t)
    \/ \E t \in Tasks : CatalogList(t)
    \/ \E t \in Tasks : CatalogDetail(t)
    \/ \E t \in Tasks : CatalogReturn(t)

\* the catalog cache under concurrent callers
CatalogSpec == Init /\ [][CatalogNext]_vars

-----------------------------------------------------------------------------
(* One SlimAgentClient used by several coroutines at once: one step runs a
   coroutine from one await to the next *)

\* slim_client.py line 23 and lines 29-32: initialize returns at once when the
\* flag is set, and otherwise asks the factory for the first client
EnterInitialize(t, via) ==
    IF _initialized
    THEN slimTasks' = [slimTasks EXCEPT ![t] =
             IF via = "call_agent"
             THEN [pc |-> "send", via |-> via, step |-> 0]
             ELSE IdleSlimTask]
    ELSE slimTasks' = [slimTasks EXCEPT ![t] =
             [pc |-> "create", via |-> via, step |-> 1]]

\* slim_client.py lines 21-24: a coroutine calls initialize
SlimTaskInitialize(t) ==
    /\ slimTasks[t].pc = "idle"
    /\ EnterInitialize(t, "initialize")
    /\ UNCHANGED <<_initialized, clients, created, outside_slim_tasks>>

\* slim_client.py lines 54-57: a coroutine calls call_agent
SlimTaskCallAgent(t) ==
    /\ slimTasks[t].pc = "idle"
    /\ EnterInitialize(t, "call_agent")
    /\ UNCHANGED <<_initialized, clients, created, outside_slim_tasks>>

\* slim_client.py lines 29-52: the factory answers for the client at position
\* step; a client is stored and the next one asked for, the flag is set after
\* the last one, and an exception leaves initialize (and call_agent)
SlimTaskCreated(t) ==
    /\ slimTasks[t].pc = "create"
    /\ LET name == SlimNames[slimTasks[t].step] IN
       \E ok \in BOOLEAN :
         IF ok
         THEN /\ created.count[name] < MaxCreated
              /\ clients' = clients \cup {name}
              /\ created' = [created EXCEPT !.count[name] = @ + 1]
              /\ IF slimTasks[t].step = Len(SlimNames)
                 THEN /\ _initialized' = TRUE
                      /\ slimTasks' = [slimTasks EXCEPT ![t] =
                              IF @.via = "call_agent"
                              THEN [@ EXCEPT !.pc = "send", !.step = 0]
                              ELSE IdleSlimTask]
                 ELSE /\ slimTasks' = [slimTasks EXCEPT ![t].step = @ + 1]
                      /\ UNCHANGED _initialized
         ELSE /\ slimTasks' = [slimTasks EXCEPT ![t] = IdleSlimTask]
              /\ created' = [created EXCEPT !.failed = TRUE]
              /\ UNCHANGED <<_initialized, clients>>
    /\ UNCHANGED outside_slim_tasks

\* slim_client.py lines 59-119: the lookup, the message and its answer
SlimTaskSent(t) ==
    /\ slimTasks[t].pc = "send"
    /\ slimTasks' = [slimTasks EXCEPT ![t] = IdleSlimTask]
    /\ UNCHANGED <<_initialized, clients, created, outside_slim_tasks>>

\* slim_client.py lines 121-135: cleanup, called when no call is in progress
SlimTaskCleanup ==
    /\ \A t \in Tasks : slimTasks[t].pc = "idle"
    /\ clients # {}
    /\ clients' = {}
    /\ _initialized' = FALSE
    /\ created' = NothingCreated
    /\ UNCHANGED <<slimTasks, outside_slim_tasks>>

SlimTaskNext ==
    \/ \E t \in Tasks : SlimTaskInitialize(t)
    \/ \E t \in Tasks : SlimTaskCallAgent(t)
    \/ \E t \in Tasks : SlimTaskCreated(t)
    \/ \E t \in Tasks : SlimTaskSent(t)
    \/ SlimTaskCleanup

\* the SLIM client under concurrent callers
SlimTaskSpec == Init /\ [][SlimTaskNext]_vars

\* the dict process_message returns (lines 749-762), read at END
ProcessMessageResult ==
    [response |-> state.final_response, intent |-> state.intent,
     matched_agents |-> state.matched_agents, agents_called |-> state.agents_called]

-----------------------------------------------------------------------------
(* The orchestrator in a fixed world: the registry, the matcher and the agents
   answer the same way every time, and the same query is sent again and again *)

\* the registries: one that fails at /list, and every one that answers it
FixedRegistries ==
    {reg \in RegistryAnswers :
        reg.list = "fail" => \A a \in Agents : reg.detail[a] = "fail"}

\* deterministic matchers, each a function of the catalog it is shown
FixedMatchers == {"fails", "first", "all_reversed", "ghost_then_alerts"}

\* the answer of a deterministic matcher for a catalog
MatcherAnswer(matcher, catalog) ==
    CASE matcher = "fails" -> [kind |-> "fail", ids |-> <<>>]
      [] matcher = "first" ->
           [kind |-> "ok", ids |-> IF catalog = <<>> THEN <<>> ELSE <<Head(catalog)>>]
      [] matcher = "all_reversed" -> [kind |-> "ok", ids |-> Reverse(catalog)]
      [] OTHER -> [kind |-> "ok", ids |-> <<"ghost", "alerts">>]

\* the replies an agent may be fixed to
FixedReplies ==
    {reply \in AgentReplies :
        \/ reply.kind = "http_error"
        \/ reply.kind = "envelope" /\ reply.text \in {<<" ">>, <<"a">>}}

Worlds ==
    [query : Queries, reg : FixedRegistries, matcher : FixedMatchers,
     reply : [Agents -> FixedReplies]]

FixedInit == InitExceptWorld /\ world \in {Some(w) : w \in Worlds}

\* the outcome of process_message: the dict returned, or the exception
Outcome ==
    [raised |-> pc = "raised",
     result |-> IF pc = "raised" THEN None ELSE Some(ProcessMessageResult)]

FixedStartup == StartupValidationWith(world[1].reg)

FixedProcessMessage == ProcessMessageWith(world[1].query)

FixedDiscoverCatalog == DiscoverCatalogWith(world[1].reg)

FixedDiscoverMatch ==
    DiscoverMatchWith(MatcherAnswer(world[1].matcher, agent_catalog))

FixedExecuteEnter == ExecuteEnterWith(world[1].reg)

FixedExecuteCall ==
    /\ pc = "execute_agents_loop"
    /\ idx <= Len(state.matched_agents)
    /\ InCatalog(agent_catalog, state.matched_agents[idx])
    /\ ExecuteCallWith(world[1].reply[state.matched_agents[idx]])

\* process_message returns; the outcome of the first request is kept
FixedReturn ==
    /\ ReturnToCaller
    /\ firstRun' = IF firstRun = None THEN Some(Outcome) ELSE firstRun
    /\ UNCHANGED <<outside_request, world, other>>

\* no turn of the loop skips an identifier here (lines 469-473): the catalog
\* read at line 462 holds what the catalog of the discovery held
FixedNext ==
    \/ Tick
    \/ FixedStartup
    \/ FixedProcessMessage
    \/ FixedDiscoverCatalog
    \/ FixedDiscoverMatch
    \/ FixedExecuteEnter
    \/ FixedExecuteCall
    \/ Synthesize
    \/ FixedReturn

\* requests one after the other in a fixed world
FixedSpec == FixedInit /\ [][FixedNext]_vars

-----------------------------------------------------------------------------
(* Two process_message requests at once on one event loop: one of them runs,
   the other waits at an await, and they change places at a switch *)

\* what the running request holds: the state dict that process_message built
\* (lines 729-741) and the locals of the node it is in
Context ==
    [pc |-> pc, state |-> state, agent_catalog |-> agent_catalog, idx |-> idx,
     responses |-> responses, agents_called |-> agents_called,
     callLog |-> callLog, visited |-> visited, matcherLog |-> matcherLog,
     catalogCall |-> catalogCall]

\* a resumption that finds the loop's lists as the request that ran last left
\* them
RestoredSharingLoopLists(waiting, running) ==
    [waiting EXCEPT !.responses = running.responses,
                    !.agents_called = running.agents_called]

\* what a request finds when it resumes: its own state dict and locals
\* (lines 457-459 and 729-741 create them per call)
Restored(waiting, running) == waiting

\* the inputs of the two requests
ConcurrentRegistries ==
    {reg \in RegistryAnswers :
        \/ reg.list = "fail" /\ \A a \in Agents : reg.detail[a] = "fail"
        \/ reg.list = "ok" /\ reg.detail["alerts"] = "alive"
                           /\ reg.detail["planner"] # "fail"}
ConcurrentMatcherAnswers ==
    {answer \in MatcherAnswers :
        answer.ids \in {<<>>, <<"alerts">>, <<"planner", "alerts">>}}
ConcurrentReplies ==
    {reply \in AgentReplies :
        \/ reply.kind = "http_error"
        \/ reply.kind = "envelope" /\ reply.text \in {<<"a">>, <<"b">>}}

\* the event loop leaves the running request at an await and resumes the other
Switch ==
    /\ pc \notin {"boot", "startup_failed"}
    /\ pc # "idle" \/ other.pc # "idle"
    /\ other' = Context
    /\ LET mine == Restored(other, Context) IN
         /\ pc' = mine.pc
         /\ state' = mine.state
         /\ agent_catalog' = mine.agent_catalog
         /\ idx' = mine.idx
         /\ responses' = mine.responses
         /\ agents_called' = mine.agents_called
         /\ callLog' = mine.callLog
         /\ visited' = mine.visited
         /\ matcherLog' = mine.matcherLog
         /\ catalogCall' = mine.catalogCall
    /\ UNCHANGED <<now, cache_vars, outside_request, world, firstRun>>

\* time passes while both requests wait: long enough for a snapshot to expire
ConcurrentTick ==
    /\ now + _catalog_cache_ttl <= MaxTime
    /\ now' = now + _catalog_cache_ttl
    /\ UNCHANGED <<cache_vars, pc, request_vars, catalogCall, outside_orchestrator>>

ConcurrentStartup ==
    \E reg \in ConcurrentRegistries : StartupValidationWith(reg)

ConcurrentDiscoverCatalog ==
    \E reg \in ConcurrentRegistries : DiscoverCatalogWith(reg)

ConcurrentDiscoverMatch ==
    \E answer \in ConcurrentMatcherAnswers : DiscoverMatchWith(answer)

ConcurrentExecuteEnter ==
    \E reg \in ConcurrentRegistries : ExecuteEnterWith(reg)

ConcurrentExecuteCall ==
    \E reply \in ConcurrentReplies : ExecuteCallWith(reply)

ConcurrentNext ==
    \/ ConcurrentTick
    \/ Switch
    \/ ConcurrentStartup
    \/ ProcessMessage
    \/ ConcurrentDiscoverCatalog
    \/ ConcurrentDiscoverMatch
    \/ ConcurrentExecuteEnter
    \/ ExecuteSkip
    \/ ConcurrentExecuteCall
    \/ Synthesize
    \/ Return

\* two requests interleaved at their awaits
ConcurrentSpec == Init /\ [][ConcurrentNext]_vars

-----------------------------------------------------------------------------
(* Helpers of the properties *)

\* sub occurs in s
Contains(s, sub) ==
    \E p \in 1..(Len(s) - Len(sub) + 1) : SubSeq(s, p, p + Len(sub) - 1) = sub

\* how many elements of s equal c
RECURSIVE Count(_, _)
Count(s, c) ==
    IF s = <<>> THEN 0 ELSE (IF Head(s) = c THEN 1 ELSE 0) + Count(Tail(s), c)

\* the request has left execute_agents_node with agents matched
Executed == pc \in {"synthesize", "END"} /\ Truthy(state.matched_agents)

\* a call of get_agent_catalog_from_registry has just been made on a cache that
\* a refresh had filled less than the TTL before
CalledWithinTTL ==
    /\ catalogCall # None
    /\ catalogCall[1].time_before # None
    /\ catalogCall[1].at - catalogCall[1].time_before[1] < _catalog_cache_ttl

\* a call of get_agent_catalog_from_registry has just failed at GET /list
RefreshFailed == catalogCall # None /\ catalogCall[1].list_failed

-----------------------------------------------------------------------------
(* The catalog cache *)

\* C1: a call made less than the TTL after the last refresh sends no registry
\* request and returns the snapshot that refresh stored, whatever it holds
C1_CacheHitWithinTTL ==
    CalledWithinTTL =>
        /\ catalogCall[1].requests = 0
        /\ catalogCall[1].ret = catalogCall[1].cache_before[1]

\* what the code does keep: the same, for a snapshot that holds an agent
CacheHitWithinTTLNonEmpty ==
    (CalledWithinTTL /\ Truthy(catalogCall[1].cache_before[1])) =>
        /\ catalogCall[1].requests = 0
        /\ catalogCall[1].ret = catalogCall[1].cache_before[1]

\* C2: when the refresh fails at GET /list and a snapshot is cached, the call
\* returns that snapshot
C2_StaleSnapshotOnRefreshFailure ==
    (RefreshFailed /\ catalogCall[1].cache_before # None) =>
        /\ ~catalogCall[1].raised
        /\ catalogCall[1].ret = catalogCall[1].cache_before[1]

\* C3: when the refresh fails at GET /list and nothing is cached, the call
\* fails with an error, which no fetch of an empty catalog looks like
C3_ColdStartFailureRaises ==
    (RefreshFailed /\ catalogCall[1].cache_before = None) =>
        /\ catalogCall[1].raised
        /\ <<catalogCall[1].raised, catalogCall[1].ret>> # <<FALSE, <<>> >>

-----------------------------------------------------------------------------
(* Calling the agents *)

\* C4: a call whose first transport fails tries the other transport exactly
\* once before it reports the failure, and no call tries more than two
C4_OneFallbackAttempt ==
    \A k \in 1..Len(callLog) :
        /\ Len(callLog[k].attempts) <= 2
        /\ callLog[k].failed =>
             /\ Len(callLog[k].attempts) = 2
             /\ callLog[k].attempts[1] # callLog[k].attempts[2]

\* what the code does keep: no call tries more than two transports
AtMostTwoAttempts ==
    \A k \in 1..Len(callLog) : Len(callLog[k].attempts) \in 1..2

\* C5: once the for loop of execute_agents_node is over, every agent after a
\* failed call has been called as if that call had succeeded: each later
\* identifier that the catalog read by the node holds has its own call
C5_FailureDoesNotStopLaterAgents ==
    Executed =>
        \A k \in 1..Len(callLog) :
            callLog[k].failed =>
                \A j \in (callLog[k].pos + 1)..Len(state.matched_agents) :
                    InCatalog(agent_catalog, state.matched_agents[j]) =>
                        \E m \in 1..Len(callLog) :
                            /\ callLog[m].pos = j
                            /\ callLog[m].agent = state.matched_agents[j]

\* a request whose first agent failed and whose second agent was still called
C5_Witness ==
    /\ pc = "END"
    /\ Len(callLog) = 2
    /\ callLog[1].pos = 1 /\ callLog[1].failed
    /\ callLog[2].pos = 2 /\ callLog[2].agent # callLog[1].agent

\* C6: after Execute, agents_called has one entry per matched identifier, in
\* the order of matched_agents, whatever the catalog held when Execute ran
C6_EveryMatchedAgentCalled ==
    Executed =>
        /\ Len(state.agents_called) = Len(state.matched_agents)
        /\ \A k \in 1..Len(state.matched_agents) :
               state.agents_called[k].agent = state.matched_agents[k]

-----------------------------------------------------------------------------
(* Synthesis *)

\* the k-th agent call of the request failed
CallFailed(k) == callLog[k].failed

\* the text the k-th agent call got back, when it did not fail
CallText(k) == callLog[k].reply.text

\* agents_called names the agent of the k-th call with a failure mark
LabelledFailed(k) ==
    \E m \in 1..Len(state.agents_called) :
        /\ state.agents_called[m].agent = callLog[k].agent
        /\ state.agents_called[m].suffix \in {" (failed)", " (error)"}

\* with two or more agents matched, a failed call i and a call j whose text
\* is in keep: i is marked failed, j's text and the note are in the reply
PartialFailureReported(keep) ==
    (pc = "END" /\ Len(state.matched_agents) >= 2) =>
        \A i, j \in 1..Len(callLog) :
            (CallFailed(i) /\ ~CallFailed(j) /\ CallText(j) \in keep) =>
                /\ LabelledFailed(i)
                /\ Contains(state.final_response, CallText(j))
                /\ Contains(state.final_response, NOTE)

NonBlank(text) == Strip(text) # <<>>
\* the texts that are not empty, and those that are not blank
NonEmptyTexts == {t \in Texts : t # <<>>}
NonBlankTexts == {t \in Texts : NonBlank(t)}

\* C7: with two or more agents matched, one failing and another returning
\* non-empty text, the failing agent is marked failed in agents_called and the
\* reply holds the other agent's text and the advisory note
C7_PartialFailureNonEmptyText == PartialFailureReported(NonEmptyTexts)

\* C7, amended: the same for a text that is not blank
C7_PartialFailureNonBlankText == PartialFailureReported(NonBlankTexts)

\* two agents matched, the first failed, the second gave a visible text
C7_Witness ==
    /\ pc = "END"
    /\ Len(callLog) = 2
    /\ CallFailed(1) /\ ~CallFailed(2) /\ NonBlank(CallText(2))
    /\ callLog[1].agent # callLog[2].agent

RECURSIVE TextsInMatchOrder(_, _)
TextsInMatchOrder(j, keep) ==
    IF j > Len(state.matched_agents) THEN <<>>
    ELSE LET here == {k \in 1..Len(callLog) :
                        /\ callLog[k].pos = j
                        /\ ~CallFailed(k)
                        /\ CallText(k) \in keep}
         IN (IF here = {} THEN <<>> ELSE <<CallText(CHOOSE k \in here : TRUE)>>)
            \o TextsInMatchOrder(j + 1, keep)

\* the reply is the texts that are in keep, in the order of matched_agents,
\* with a blank line between two of them, and then at most the advisory note
MergedInMatchOrder(keep) ==
    (pc = "END" /\ TextsInMatchOrder(1, keep) # <<>>) =>
        \E note \in {<<>>, SEP \o NOTE} :
            state.final_response = Join(TextsInMatchOrder(1, keep), SEP) \o note

\* C9: the reply is the non-empty Success texts in matched_agents order,
\* separated by a blank line; empty texts add nothing
C9_MergeOfNonEmptyTexts == MergedInMatchOrder(NonEmptyTexts)

\* C9, amended: the reply is the Success texts that are not blank
C9_MergeOfNonBlankTexts == MergedInMatchOrder(NonBlankTexts)

\* two agents gave different visible texts and the reply holds both
C9_Witness ==
    /\ pc = "END"
    /\ Len(callLog) = 2
    /\ ~CallFailed(1) /\ ~CallFailed(2)
    /\ NonBlank(CallText(1)) /\ NonBlank(CallText(2))
    /\ CallText(1) # CallText(2)
    /\ callLog[1].agent # callLog[2].agent
    /\ state.final_response = CallText(1) \o SEP \o CallText(2)

-----------------------------------------------------------------------------
(* Routing *)

\* C10: with no agent matched the request goes from Discover straight to
\* Synthesize, calls no agent and reports agents_called empty; with agents
\* matched it runs Execute before Synthesize
C10_RoutingAfterDiscovery ==
    /\ (\E k \in 1..Len(visited) : visited[k] = "execute_agents") =>
           Truthy(state.matched_agents)
    /\ (pc = "END" /\ ~Truthy(state.matched_agents)) =>
           /\ visited = <<"semantic_discovery", "synthesize">>
           /\ callLog = <<>>
           /\ ProcessMessageResult.agents_called = <<>>
    /\ (pc = "END" /\ Truthy(state.matched_agents)) =>
           visited = <<"semantic_discovery", "execute_agents", "synthesize">>

\* a request that ended on the no-match path
C10_Witness ==
    /\ pc = "END"
    /\ state.matched_agents = <<>>
    /\ visited = <<"semantic_discovery", "synthesize">>

-----------------------------------------------------------------------------
(* C11 *)

\* C11: when no agent was matched the reply is a function of the query text
\* alone: the fixed greeting when a cue word occurs in the query (in lower
\* case), the fixed capability hint otherwise; no agent result exists, and the
\* reply is none of the merged text, the advisory note and the
\* agents-unavailable message
C11_NoMatchReplyFromQueryOnly ==
    (pc = "END" /\ state.matched_agents = <<>>) =>
        /\ state.agent_responses = <<>>
        /\ callLog = <<>>
        /\ state.final_response =
             IF \E word \in GreetingWords :
                  Contains(Lower(state.user_message), word)
             THEN GREETING ELSE HINT
        /\ state.final_response \notin {UNAVAILABLE, INCOMPLETE}
        /\ ~Contains(state.final_response, NOTE)
        /\ ~Contains(state.final_response, SEP)

\* "Hi!" is answered with the greeting: the cue "hi" occurs in "hi!"
C11_Witness ==
    /\ pc = "END"
    /\ state.matched_agents = <<>>
    /\ state.user_message = <<"H", "i", "!">>
    /\ state.final_response = GREETING

-----------------------------------------------------------------------------
(* C12 *)

\* the graph has no cycle and nothing follows synthesize: each node runs at
\* most once, and a request at END has run synthesize once, as its last node
NoCycleSynthesizeLast ==
    /\ \A node \in {"semantic_discovery", "execute_agents", "synthesize"} :
         Count(visited, node) <= 1
    /\ pc = "END" =>
         /\ Count(visited, "synthesize") = 1
         /\ visited[Len(visited)] = "synthesize"
         /\ state.should_end

\* C12: every run of process_message reaches synthesize exactly once and ends
\* with a reply, never with an exception, whatever the registry, the matcher
\* and the agents answer; no node runs twice and nothing follows synthesize
C12_EveryRunEndsWithReply ==
    /\ pc # "raised"
    /\ NoCycleSynthesizeLast

-----------------------------------------------------------------------------
(* C13 *)

\* C13: a failure of the matcher does not leave semantic_agent_discovery: the
\* request has no matched agent, the matcher is not asked again in the
\* request, and the request goes from discovery to synthesize, calls no agent
\* and ends with the reply of a request without match
C13_MatcherFailureIsNoMatch ==
    /\ Len(matcherLog) <= 1
    /\ matcherLog = <<"fail">> =>
         /\ pc \in {"synthesize", "END"}
         /\ state.matched_agents = <<>>
         /\ state.intent = "general"
         /\ callLog = <<>>
         /\ \A k \in 1..Len(visited) : visited[k] # "execute_agents"
         /\ pc = "END" => state.final_response \in {GREETING, HINT}

C13_Witness ==
    /\ pc = "END"
    /\ matcherLog = <<"fail">>
    /\ visited = <<"semantic_discovery", "synthesize">>
    /\ state.final_response = HINT

-----------------------------------------------------------------------------
(* C14 *)

\* the request has left semantic_discovery_node, whose reading of the catalog
\* was empty, and has not run execute_agents_node
DiscoveredEmptyCatalog ==
    /\ pc \in {"synthesize", "END", "raised"}
    /\ agent_catalog = <<>>
    /\ \A k \in 1..Len(visited) : visited[k] # "execute_agents"

\* C14: with an empty catalog semantic_agent_discovery returns an empty match
\* list and no error: the matcher is never asked about an empty catalog, and
\* the request goes on without match to synthesize and its reply
C14_EmptyCatalogIsNoMatch ==
    /\ pc = "semantic_discovery_match" => agent_catalog # <<>>
    /\ DiscoveredEmptyCatalog =>
         /\ pc # "raised"
         /\ matcherLog = <<>>
         /\ state.matched_agents = <<>>
         /\ callLog = <<>>
         /\ pc = "END" => state.final_response \in {GREETING, HINT}

\* the registry answered, no agent was alive, and the request got its reply
C14_Witness ==
    /\ pc = "END"
    /\ DiscoveredEmptyCatalog
    /\ catalogCall # None
    /\ ~catalogCall[1].list_failed
    /\ catalogCall[1].requests > 0
    /\ state.final_response = GREETING

-----------------------------------------------------------------------------
(* C15 *)

\* where a request can be: in one of the three nodes of the graph (discovery
\* and execution in two steps each), at END, or aborted
RequestPositions ==
    {"semantic_discovery", "semantic_discovery_match", "execute_agents",
     "execute_agents_loop", "synthesize", "END", "raised"}

\* C15: in a request with at most one matched agent no query decomposer is
\* invoked: the request only ever is in semantic_discovery, execute_agents and
\* synthesize, whose external calls are the registry, the matcher (once at
\* most) and the matched agent (once at most)
C15_NoDecomposerForOneMatch ==
    (state # NoState /\ Len(state.matched_agents) <= 1) =>
        /\ pc \in RequestPositions
        /\ \A k \in 1..Len(visited) : visited[k] \in GraphNodes
        /\ Len(matcherLog) <= 1
        /\ Len(callLog) <= 1

C15_Witness ==
    /\ pc = "END"
    /\ Len(state.matched_agents) = 1
    /\ matcherLog = <<"ok">>
    /\ Len(callLog) = 1
    /\ visited = <<"semantic_discovery", "execute_agents", "synthesize">>

-----------------------------------------------------------------------------
(* C16 *)

\* the sub-queries a decomposer may give: "delays?" and "route"
SubQueries ==
    {<<"d", "e", "l", "a", "y", "s", "?">>, <<"r", "o", "u", "t", "e">>}

\* the maps a decomposer may return for the matched agents: a sub-query for
\* each agent of a subset of them
DecompositionMaps(matched_agent_ids) ==
    UNION {[S -> SubQueries] :
             S \in SUBSET {matched_agent_ids[k] : k \in 1..Len(matched_agent_ids)}}

\* every agent is sent the original query verbatim
OriginalQuerySent ==
    \A k \in 1..Len(callLog) : callLog[k].message = state.user_message

\* C16: when two or more agents are matched, whatever map the decomposer
\* returns, an agent with an entry in the map is called with its sub-query and
\* an agent without one is called with the original query
C16_SubQueriesSent ==
    Len(state.matched_agents) >= 2 =>
        \A map \in DecompositionMaps(state.matched_agents) :
            \A k \in 1..Len(callLog) :
                callLog[k].message =
                    IF callLog[k].agent \in DOMAIN map THEN map[callLog[k].agent]
                    ELSE state.user_message

-----------------------------------------------------------------------------
(* C17 *)

\* C17: agents_called of the result lists the attempted agents, one entry per
\* call and in the order of the calls: the bare identifier when the call
\* succeeded, the identifier with " (failed)" when call_agent_api returned an
\* error result and with " (error)" when it raised
C17_LabelsTellOutcome ==
    pc = "END" =>
        LET called == ProcessMessageResult.agents_called IN
        /\ Len(called) = Len(callLog)
        /\ \A k \in 1..Len(callLog) :
             /\ called[k].agent = callLog[k].agent
             /\ called[k].suffix \in {"", " (failed)", " (error)"}
             /\ called[k].suffix = "" <=> ~callLog[k].failed
             /\ called[k].suffix = " (failed)" <=>
                  \/ callLog[k].reply.kind = "http_error"
                  \/ callLog[k].reply.kind = "other" /\ callLog[k].reply.error

\* one request with a connection error, then a success
C17_Witness ==
    /\ pc = "END"
    /\ Len(callLog) = 2
    /\ callLog[1].reply.kind = "http_error"
    /\ callLog[2].reply.kind = "envelope"
    /\ state.agents_called[1].suffix = " (failed)"
    /\ state.agents_called[2].suffix = ""

-----------------------------------------------------------------------------
(* C19 *)

\* on the HTTP transport a response envelope without text gives a successful
\* result with the empty text
A2ANoTextIsEmptySuccess ==
    \A k \in 1..Len(callLog) :
        (callLog[k].reply.kind = "envelope" /\ callLog[k].reply.text = <<>>) =>
            /\ ~callLog[k].failed
            /\ pc = "END" => state.agent_responses[k] = [response |-> <<>>, error |-> FALSE]

\* the reply of the latest SLIM call is a result that carries no text
SlimReplyWithoutText ==
    /\ slimLog # None
    /\ slimLog[1].reply # None
    /\ \/ slimLog[1].reply[1].kind \in {"no_parts", "no_text_part"}
       \/ slimLog[1].reply[1].kind = "text" /\ slimLog[1].reply[1].text = <<>>

\* C19: a well-formed reply without error that carries no text gives a
\* successful call result whose text is the empty string (stated of the SLIM
\* transport; A2ANoTextIsEmptySuccess states it of the HTTP transport)
C19_NoTextIsEmptySuccess ==
    SlimReplyWithoutText => ~slimLog[1].raised /\ slimLog[1].response = <<>>

-----------------------------------------------------------------------------
(* C18 *)

\* C18: a 2xx reply whose body is not a response envelope with a payload is a
\* failed call: the agent's label in agents_called carries a failure
\* annotation and the result counts as an error in the synthesis
C18_NonEnvelopeIsFailure ==
    \A k \in 1..Len(callLog) :
        callLog[k].reply.kind \in {"bad_json", "other"} =>
            /\ callLog[k].failed
            /\ pc = "END" =>
                 /\ state.agents_called[k].suffix # ""
                 /\ state.agent_responses[k].error

-----------------------------------------------------------------------------
(* C20 *)

\* the characters of a text
Chars(text) == {text[p] : p \in 1..Len(text)}

\* the characters of the texts of the results that are not flagged as errors
CharsOfResults ==
    UNION {Chars(state.agent_responses[k].response) :
             k \in {j \in 1..Len(state.agent_responses) :
                      ~state.agent_responses[j].error}}

\* C20: the reply holds no error text of a failed call and no text of a result
\* flagged as an error: it is made of the texts of the other results, the
\* separator and the fixed messages; the advisory note or the
\* agents-unavailable message is there exactly when a result is flagged
C20_NoErrorTextInReply ==
    pc = "END" =>
        LET reply == ProcessMessageResult.response
            flagged == \E k \in 1..Len(state.agent_responses) :
                          state.agent_responses[k].error
        IN /\ ~Contains(reply, ErrorText)
           /\ Chars(reply) \subseteq
                CharsOfResults \cup Chars(SEP) \cup Chars(NOTE) \cup Chars(UNAVAILABLE)
                  \cup Chars(INCOMPLETE) \cup Chars(GREETING) \cup Chars(HINT)
           /\ flagged <=> (Contains(reply, NOTE) \/ reply = UNAVAILABLE)

\* an error result that carries the text "a" and a success with the text "b":
\* the reply is "b" and the note
C20_Witness ==
    /\ pc = "END"
    /\ Len(state.agent_responses) = 2
    /\ state.agent_responses[1] = [response |-> <<"a">>, error |-> TRUE]
    /\ state.agent_responses[2] = [response |-> <<"b">>, error |-> FALSE]
    /\ state.final_response = <<"b">> \o SEP \o NOTE

-----------------------------------------------------------------------------
(* C23 *)

\* the orchestrator is ready and has served no request yet: catalogCall is the
\* catalog fetch of startup_validation
ReadyAfterStartup == pc = "idle" /\ catalogCall # None

\* C23: startup_validation on a cold start fails when the registry is
\* unreachable: the orchestrator is never ready after a startup whose health
\* probe failed (that startup ends in startup_failed) or whose catalog fetch
\* failed at the registry
C23_StartupFailsWhenRegistryUnreachable ==
    ReadyAfterStartup =>
        /\ ~catalogCall[1].list_failed
        /\ catalogCall[1].cache_before = None

-----------------------------------------------------------------------------
(* C27 *)

-----------------------------------------------------------------------------
(* C29 *)

\* call_agent_api writes neither the catalog cache nor its timestamp
CallAgentApiLeavesCache == [][ExecuteCall => UNCHANGED cache_vars]_vars

C24_GeneralWheneverNoCue ==
    intentLog # None =>
        LET r == intentLog[1]
            a == r.desc \cap {"alert", "delay", "disruption"} # {}
            s == r.desc \cap {"stop", "station", "location"} # {}
            t == r.desc \cap {"route", "planning", "direction", "trip"} # {}
        IN  /\ r.matched /\ a => r.intent = "alerts"
            /\ r.matched /\ ~a /\ s => r.intent = "stops"
            /\ r.matched /\ ~a /\ ~s /\ t => r.intent = "trip_planning"
            /\ ~a /\ ~s /\ ~t => r.intent = "general"

\* C24 (amended): the intent is "general" exactly when no agent was matched;
\* with an agent matched, the first cue group, in the order alerts, stops,
\* trip planning, with a word in the first matched agent's description gives
\* the intent, and a description with no cue at all gives "transit_info"
C24_FirstCueGroupElseTransitInfo ==
    intentLog # None =>
        LET r == intentLog[1]
            a == r.desc \cap {"alert", "delay", "disruption"} # {}
            s == r.desc \cap {"stop", "station", "location"} # {}
            t == r.desc \cap {"route", "planning", "direction", "trip"} # {}
        IN  /\ r.intent = "general" <=> ~r.matched
            /\ r.matched /\ a => r.intent = "alerts"
            /\ r.matched /\ ~a /\ s => r.intent = "stops"
            /\ r.matched /\ ~a /\ ~s /\ t => r.intent = "trip_planning"
            /\ r.matched /\ ~a /\ ~s /\ ~t => r.intent = "transit_info"

\* an agent matched whose description has a stop cue and a route cue
C24_Witness ==
    /\ intentLog # None
    /\ intentLog[1].matched
    /\ intentLog[1].desc = {"station", "route"}
    /\ intentLog[1].intent = "stops"

\* --------------------------------------------------------------------------
\* the snapshots that were stored in the cache or returned to a caller, each
\* with the detail answers of the refresh that built it
SnapshotsStoredOrReturned ==
    (IF stored # None THEN {stored[1]} ELSE {})
    \cup {tasks[t].seen[1] :
            t \in {u \in Tasks : tasks[u].pc = "done" /\ tasks[u].seen # None}}

\* the detail answer a snapshot's refresh got for an agent
AnswerFor(snapshot, agent) ==
    snapshot.answers[CHOOSE i \in 1..Len(AgentKeys) : AgentKeys[i] = agent]

\* C21: every record of a snapshot stored or returned by a refresh had a
\* successful detail fetch with liveness true, and the agents whose fetch
\* failed or that are not alive are left out while the live ones are kept
C21_SnapshotHoldsExactlyLiveAgents ==
    /\ \A snapshot \in SnapshotsStoredOrReturned :
         /\ Len(snapshot.answers) = Len(AgentKeys)
         /\ \A a \in Agents :
              InCatalog(snapshot.result, a) <=> AnswerFor(snapshot, a) = "alive"
    /\ \A t \in Tasks :
         tasks[t].from \in {"refresh", "cache"} =>
             tasks[t].ret = Some(tasks[t].seen[1].result)

\* a refresh stored and returned a snapshot that leaves out a failed fetch
\* and keeps the live agent after it
C21_Witness ==
    \E t \in Tasks :
        /\ tasks[t].from = "refresh"
        /\ tasks[t].answers = <<"fail", "alive">>
        /\ tasks[t].ret = Some(<<"planner">>)
        /\ _agent_catalog_cache = Some(<<"planner">>)

\* a snapshot is the whole result of a refresh that went through every key
Complete(snapshot) ==
    /\ Len(snapshot.answers) = Len(AgentKeys)
    /\ snapshot.result = AgentsInfo(RegOf(snapshot.answers))

\* C22: with refreshes and cache reads interleaved at every await, the cache
\* is absent or is the complete result of one finished refresh, and a caller
\* served from the cache gets such a complete result, never a list that
\* another coroutine is still building
C22_CacheIsAbsentOrComplete ==
    /\ \/ _agent_catalog_cache = None /\ stored = None
       \/ /\ stored # None
          /\ _agent_catalog_cache = Some(stored[1].result)
          /\ Complete(stored[1])
    /\ \A t \in Tasks :
         tasks[t].from = "cache" =>
             /\ tasks[t].seen # None
             /\ Complete(tasks[t].seen[1])
             /\ tasks[t].ret = Some(tasks[t].seen[1].result)

\* one coroutine is served both agents from the cache while the other is in
\* the middle of a refresh, with one record of two in its list
C22_Witness ==
    \E t, u \in Tasks :
        /\ tasks[t].from = "cache"
        /\ tasks[t].ret = Some(<<"alerts", "planner">>)
        /\ tasks[u].pc = "detail"
        /\ tasks[u].agents_info = <<"alerts">>

\* a coroutine got the failure of /list in this step
ListFailed(t) ==
    tasks[t].pc = "list" /\ tasks'[t].from = "failed"

\* a coroutine was at the last answer of its loop, after /list succeeded, and
\* returned from the refresh in this step
RefreshEnded(t) ==
    /\ tasks[t].pc \in {"list", "detail"}
    /\ tasks'[t].from = "refresh"

\* C30: a refresh that fails at /list leaves the cache and the timestamp as
\* they were; the two are only written together, in the step that ends a
\* refresh whose /list succeeded, with that refresh's list and the time then
C30_CacheWrittenOnlyAtEndOfRefresh ==
    [][/\ \A t \in Tasks : ListFailed(t) => UNCHANGED cache_vars
       /\ (_agent_catalog_cache' # _agent_catalog_cache
              \/ _catalog_cache_time' # _catalog_cache_time)
          => \E t \in Tasks :
                /\ RefreshEnded(t)
                /\ _agent_catalog_cache' = tasks'[t].ret
                /\ _catalog_cache_time' = Some(now)
       /\ \A t \in Tasks :
            RefreshEnded(t) =>
                /\ _agent_catalog_cache' = tasks'[t].ret
                /\ _catalog_cache_time' = Some(now)]_vars

\* a refresh failed at /list while the cache held an expired snapshot, which
\* is still there with its timestamp
C30_Witness ==
    \E t \in Tasks :
        /\ tasks[t].from = "failed"
        /\ _agent_catalog_cache = Some(<<"alerts">>)
        /\ _catalog_cache_time = Some(0)
        /\ now = MaxTime

\* --------------------------------------------------------------------------
\* C28: between start and cleanup, with no initialization having failed, each
\* client is created at most once, for every interleaving of concurrent
\* initialize and call_agent calls
C28_ClientsCreatedAtMostOnce ==
    ~created.failed =>
        \A k \in 1..Len(SlimNames) : created.count[SlimNames[k]] <= 1

OwnOutcome(ctx) ==
    LET called == IF ctx.pc = "execute_agents_loop" THEN ctx.agents_called
                  ELSE ctx.state.agents_called
        results == IF ctx.pc = "execute_agents_loop" THEN ctx.responses
                   ELSE ctx.state.agent_responses
    IN  /\ \A k \in 1..Len(ctx.callLog) :
             /\ ctx.callLog[k].message = ctx.state.user_message
             /\ ctx.callLog[k].pos \in 1..Len(ctx.state.matched_agents)
             /\ ctx.callLog[k].agent = ctx.state.matched_agents[ctx.callLog[k].pos]
        /\ ctx.pc \in {"execute_agents_loop", "synthesize", "END", "raised"} =>
             /\ Len(called) = Len(ctx.callLog)
             /\ Len(results) = Len(ctx.callLog)
             /\ \A k \in 1..Len(ctx.callLog) :
                  LET result == CallAgentApi(ctx.callLog[k].agent,
                                             ctx.callLog[k].reply)
                  IN /\ called[k] = AgentLabel(ctx.callLog[k].agent, result)
                     /\ results[k] = ResponseEntry(ctx.callLog[k].agent, result)
        /\ ctx.pc = "END" =>
             ctx.state.final_response = SynthesizeResponse(ctx.state)

\* C26: with two process_message requests interleaved at every await, the
\* matched_agents, agents_called, agent results and final reply of each request
\* are those of its own query and its own calls, and a step of the running
\* request changes nothing the waiting request holds: the two share only the
\* catalog cache
C26_RequestsShareOnlyTheCache ==
    [][/\ OwnOutcome(Context)' /\ OwnOutcome(other)'
       /\ ~Switch => other' = other]_vars

\* the two requests, with different queries, are both past their calls; one
\* called two agents and the other one, with different outcomes
C26_Witness ==
    /\ pc = "END" /\ other.pc = "synthesize"
    /\ state.user_message # other.state.user_message
    /\ Len(state.agents_called) = 2
    /\ Len(other.state.agents_called) = 1
    /\ other.state.agents_called[1].suffix = " (failed)"
    /\ state.agents_called[1].suffix = ""
    /\ state.agents_called[2].suffix = ""

\* --------------------------------------------------------------------------
\* matched is what is left of ids, in the same order, when exactly the
\* identifiers outside keep are taken out: pick says where each one came from
IsWhatIsLeft(matched, ids, keep) ==
    \E pick \in [1..Len(matched) -> 1..Len(ids)] :
        /\ \A k \in 1..Len(matched) : matched[k] = ids[pick[k]]
        /\ \A j, k \in 1..Len(matched) : j < k => pick[j] < pick[k]
        /\ \A i \in 1..Len(ids) :
             (\E k \in 1..Len(matched) : pick[k] = i) <=> ids[i] \in keep

\* C31: every identifier in matched_agents names an agent of the catalog that
\* was used for matching, the identifiers the matcher returned that are not in
\* that catalog are dropped, and the others stay in the order the matcher
\* returned them
C31_MatchedAreCatalogAgentsInMatcherOrder ==
    matchLog # None =>
        LET r == matchLog[1]
            in_catalog == {r.catalog[k] : k \in 1..Len(r.catalog)}
        IN  /\ \A k \in 1..Len(r.matched_agents) :
                 r.matched_agents[k] \in in_catalog
            /\ r.answer.kind = "ok" =>
                 IsWhatIsLeft(r.matched_agents, r.answer.ids, in_catalog)

\* the matcher named the second agent of the catalog, an unknown agent, and
\* then the first agent
C31_Witness ==
    /\ matchLog # None
    /\ matchLog[1].catalog = <<"alerts", "planner">>
    /\ matchLog[1].answer.ids = <<"planner", "ghost", "alerts">>
    /\ matchLog[1].matched_agents = <<"planner", "alerts">>

\* --------------------------------------------------------------------------
\* the identifiers of called occur in matched, in the same order
IsOrderedPartOf(called, matched) ==
    \E pick \in [1..Len(called) -> 1..Len(matched)] :
        /\ \A k \in 1..Len(called) : called[k].agent = matched[pick[k]]
        /\ \A j, k \in 1..Len(called) : j < k => pick[j] < pick[k]

\* C32: after execute_agents_node, agents_called and agent_responses have the
\* same length, the i-th label is a bare identifier exactly when the i-th
\* response carries no error flag, and the identifiers of the labels are an
\* order-preserving subsequence of matched_agents
C32_LabelsAlignedWithResponses ==
    pc \in {"synthesize", "END", "raised"} =>
        /\ Len(state.agents_called) = Len(state.agent_responses)
        /\ \A i \in 1..Len(state.agents_called) :
             state.agents_called[i].suffix = "" <=> ~state.agent_responses[i].error
        /\ IsOrderedPartOf(state.agents_called, state.matched_agents)

\* two agents were matched; the first was not in the catalog read at line 462
\* and the call of the second raised
C32_Witness ==
    /\ pc = "synthesize"
    /\ Len(state.matched_agents) = 2
    /\ Len(state.agents_called) = 1
    /\ state.agents_called[1].agent = state.matched_agents[2]
    /\ state.agents_called[1].suffix = " (error)"
    /\ state.agent_responses[1].error

\* --------------------------------------------------------------------------
\* C33: in every state where should_end is true, final_response is not empty;
\* should_end is true only once synthesize_response_node has returned, which
\* sets the two together, and no earlier step sets it
C33_ShouldEndHasReply ==
    /\ state.should_end => Truthy(state.final_response) /\ pc = "END"
    /\ pc = "END" => state.should_end

\* the request ended on the path with no error and no usable text: two agents
\* answered, one with an empty text and one with a blank one
C33_Witness ==
    /\ state.should_end
    /\ Len(state.agent_responses) = 2
    /\ state.agent_responses[1] = [response |-> <<>>, error |-> FALSE]
    /\ state.agent_responses[2] = [response |-> <<" ">>, error |-> FALSE]
    /\ state.final_response = INCOMPLETE

====
